---- MODULE Spec2Model ----
(***************************************************************************)
(* Model of rpi_garage_smartthings.py: the SSDP discovery responder        *)
(* (SSDPServer), the HTTP status/subscribe endpoint (StatusServer) and the *)
(* periodic state monitor with its notifier (GarageMonitor), all run by    *)
(* one reactor, so every handler is one atomic step.                       *)
(*                                                                         *)
(* Strings are sequences of atoms.  An atom is a separator the code looks  *)
(* for ("\r\n", " ", ":", "<", ">") or a run of characters the code never  *)
(* looks inside.  The string operations are the Python ones, on atoms.     *)
(***************************************************************************)
EXTENDS Integers, Sequences, FiniteSets, Bags, TLC

(***************************************************************************)
(* Python string operations                                                *)
(***************************************************************************)
CRLF == "\r\n"

\* s[i:] for a 0-based i >= 0
From(s, i) == SubSeq(s, i + 1, Len(s))

\* s.startswith(p)
StartsWith(s, p) == Len(p) <= Len(s) /\ SubSeq(s, 1, Len(p)) = p

\* s.find(sep): the least 1-based position where sep occurs in s, 0 when none
Find(s, sep) ==
    LET hits == {i \in 1..(Len(s) - Len(sep) + 1) : SubSeq(s, i, i + Len(sep) - 1) = sep}
    IN  IF hits = {} THEN 0 ELSE CHOOSE i \in hits : \A j \in hits : i <= j

\* sub in s
Contains(sub, s) ==
    \E i \in 1..(Len(s) - Len(sub) + 1) : SubSeq(s, i, i + Len(sub) - 1) = sub

\* s.split(sep), sep non-empty
RECURSIVE split(_, _)
split(s, sep) ==
    LET i == Find(s, sep)
    IN  IF i = 0 THEN <<s>>
        ELSE <<SubSeq(s, 1, i - 1)>> \o split(From(s, i - 1 + Len(sep)), sep)

\* s.split(sep, 1)
split1(s, sep) ==
    LET i == Find(s, sep)
    IN  IF i = 0 THEN <<s>>
        ELSE <<SubSeq(s, 1, i - 1), From(s, i - 1 + Len(sep))>>

\* s.replace(old, new, 1)
replace1(s, old, new) ==
    LET i == Find(s, old)
    IN  IF i = 0 THEN s
        ELSE SubSeq(s, 1, i - 1) \o new \o From(s, i - 1 + Len(old))

\* s.lower(): the header names that occur, folded to lower case
LowerAtom(a) ==
    CASE a = "ST" -> "st"
      [] a = "St" -> "st"
      [] a = "HOST" -> "host"
      [] a = "MAN" -> "man"
      [] OTHER -> a

lower(s) == [i \in 1..Len(s) |-> LowerAtom(s[i])]

\* s[1:-1]
Slice1m1(s) == SubSeq(s, 2, Len(s) - 1)

\* '%d' % n for n >= 0
DigitAtom == <<"0", "1", "2", "3", "4", "5", "6", "7", "8", "9">>

RECURSIVE Digits(_)
Digits(n) ==
    IF n < 10 THEN <<DigitAtom[n + 1]>>
    ELSE Digits(n \div 10) \o <<DigitAtom[(n % 10) + 1]>>

(***************************************************************************)
(* Module constants and the command line (main)                            *)
(***************************************************************************)
UUID == "d1c58eb4-9220-11e4-96fa-123b93f75cba"

\* --httpport and --deviceindex, at their defaults
http_port == 8080
device_index == 1

\* 'urn:schemas-upnp-org:device:RPi_Garage_Monitor:%d' % device_index
device_target ==
    <<"urn", ":", "schemas-upnp-org", ":", "device", ":", "RPi_Garage_Monitor", ":">>
        \o Digits(device_index)

\* variant: the device target is formatted into the ST field
SEARCH_RESPONSE_target_as_st(url, st, uuid, target) ==
    <<"HTTP/1.1", " ", "200", " ", "OK", CRLF,
      "CACHE-CONTROL", ":", "max-age=30", CRLF,
      "EXT", ":", CRLF,
      "LOCATION", ":">> \o url \o
    <<CRLF, "SERVER", ":", "Linux, UPnP/1.0, Pi_Garage/1.0", CRLF,
      "ST", ":">> \o target \o
    <<CRLF, "USN", ":", "uuid", ":", uuid, ":", ":">> \o target

\* SEARCH_RESPONSE % (url, st, uuid, target)
SEARCH_RESPONSE(url, st, uuid, target) ==
    <<"HTTP/1.1", " ", "200", " ", "OK", CRLF,
      "CACHE-CONTROL", ":", "max-age=30", CRLF,
      "EXT", ":", CRLF,
      "LOCATION", ":">> \o url \o
    <<CRLF, "SERVER", ":", "Linux, UPnP/1.0, Pi_Garage/1.0", CRLF,
      "ST", ":">> \o st \o
    <<CRLF, "USN", ":", "uuid", ":", uuid, ":", ":">> \o target

(***************************************************************************)
(* determine_ip_for_host: the local address of the interface that routes   *)
(* to the host.  The device is multi-homed: one address per network.       *)
(***************************************************************************)
determine_ip_for_host(host) ==
    IF host = "192.168.1.10" THEN "192.168.1.2" ELSE "10.0.0.2"

(***************************************************************************)
(* SSDPServer.datagramReceived, as a function of the datagram and of its   *)
(* source: what it writes to the socket and the exception it ends with.    *)
(***************************************************************************)
NoResult == [written |-> <<>>, raised |-> "none"]

\* 'http://%s:%d/status' % (ip, status_port)
StatusUrl(ip, status_port) ==
    <<"http", ":", "//", ip, ":">> \o Digits(status_port) \o <<"/status">>

\* dict(pairs): a later pair overrides an earlier one with the same key
RECURSIVE dict(_)
dict(pairs) ==
    IF pairs = <<>> THEN <<>>
    ELSE LET n    == Len(pairs)
             rest == dict(SubSeq(pairs, 1, n - 1))
             k    == pairs[n][1]
         IN  [x \in (DOMAIN rest) \cup {k} |-> IF x = k THEN pairs[n][2] ELSE rest[x]]

\* variant: the target of the request line is not compared
IsSearchForUs_any_target(cmd, search_target, target) ==
    cmd[1] = <<"M-SEARCH">> /\ Contains(search_target, target)

\* line 102: the request is answered
IsSearchForUs(cmd, search_target, target) ==
    cmd[1] = <<"M-SEARCH">> /\ cmd[2] = <<"*">> /\ Contains(search_target, target)

datagramReceived(data, host, port) ==
    LET parts == split(data, <<CRLF, CRLF>>)
    IN  IF Len(parts) < 2 THEN NoResult            \* ValueError, caught: return
        ELSE
        LET header  == parts[1]
            lines0  == split(header, <<CRLF>>)
            cmd     == split(lines0[1], <<" ">>)    \* lines.pop(0).split(' ')
            lines1  == Tail(lines0)
            lines2  == [i \in 1..Len(lines1) |-> replace1(lines1[i], <<":", " ">>, <<":">>)]
            lines3  == SelectSeq(lines2, LAMBDA x : Len(x) > 0)
            fields  == [i \in 1..Len(lines3) |-> split1(lines3[i], <<":">>)]
        IN  IF \E i \in 1..Len(fields) : Len(fields[i]) < 2
            THEN [written |-> <<>>, raised |-> "IndexError"]     \* x[1], line 94
            ELSE
            LET headers == dict([i \in 1..Len(fields) |->
                                    <<lower(fields[i][1]), fields[i][2]>>])
            IN  IF Len(cmd) < 2
                THEN [written |-> <<>>, raised |-> "IndexError"] \* cmd[1], line 96
                ELSE
                LET search_target ==
                        IF <<"st">> \in DOMAIN headers THEN headers[<<"st">>] ELSE <<>>
                IN  IF IsSearchForUs(cmd, search_target, device_target)
                    THEN LET url == StatusUrl(determine_ip_for_host(host), http_port)
                             response == SEARCH_RESPONSE(url, search_target, UUID,
                                                         device_target)
                         IN  [written |-> <<[data |-> response, to |-> <<host, port>>]>>,
                              raised  |-> "none"]
                    ELSE NoResult

(***************************************************************************)
(* The datagrams the network delivers.  A request is given by its parts    *)
(* and rendered to the text on the wire; the handler sees only the text.   *)
(* Header values are URIs or host:port pairs: they hold no space.          *)
(***************************************************************************)
Hdr(name, sep, value) == [name |-> name, sep |-> sep, value |-> value]

ColonSp == <<":", " ">>
Colon   == <<":">>
NoSep   == <<>>

OtherTarget ==
    <<"urn", ":", "schemas-upnp-org", ":", "device", ":", "ZonePlayer", ":", "1">>
\* the device target without its ":<index>" tail, and with one more digit
TargetPrefix == SubSeq(device_target, 1, Len(device_target) - 2)
TargetLonger == device_target \o <<"2">>

MSearch == <<"M-SEARCH", "*", "HTTP/1.1">>
HostHdr == Hdr("HOST", ColonSp, <<"239.255.255.250", ":", "1900">>)

Req(line, hdrs, term) == [line |-> line, hdrs |-> hdrs, term |-> term]

Requests ==
    { Req(MSearch, <<HostHdr, Hdr("ST", ColonSp, device_target)>>, TRUE),
      Req(MSearch, <<Hdr("st", Colon, device_target), HostHdr>>, TRUE),
      Req(<<"M-SEARCH", "*">>, <<Hdr("St", ColonSp, device_target)>>, TRUE),
      Req(MSearch, <<HostHdr, Hdr("ST", ColonSp, OtherTarget)>>, TRUE),
      Req(MSearch, <<HostHdr>>, TRUE),
      Req(MSearch, <<Hdr("ST", ColonSp, TargetPrefix)>>, TRUE),
      Req(MSearch, <<Hdr("ST", Colon, TargetLonger)>>, TRUE),
      Req(<<"NOTIFY", "*", "HTTP/1.1">>, <<Hdr("ST", ColonSp, device_target)>>, TRUE),
      Req(<<"M-SEARCH", "/", "HTTP/1.1">>, <<Hdr("ST", ColonSp, device_target)>>, TRUE),
      Req(MSearch, <<Hdr("ST", ColonSp, device_target)>>, FALSE),
      Req(<<"M-SEARCH">>, <<Hdr("ST", ColonSp, device_target)>>, TRUE),
      Req(MSearch, <<Hdr("ST", ColonSp, device_target), Hdr("garbage", NoSep, <<>>)>>, TRUE) }

RECURSIVE Join(_, _)
Join(tokens, sep) ==
    IF tokens = <<>> THEN <<>>
    ELSE IF Len(tokens) = 1 THEN <<tokens[1]>>
    ELSE <<tokens[1]>> \o sep \o Join(Tail(tokens), sep)

RECURSIVE RenderHdrs(_)
RenderHdrs(hdrs) ==
    IF hdrs = <<>> THEN <<>>
    ELSE <<CRLF, hdrs[1].name>> \o hdrs[1].sep \o hdrs[1].value \o RenderHdrs(Tail(hdrs))

\* the text of a request; an unterminated one lacks the blank line
Render(r) ==
    Join(r.line, <<" ">>) \o RenderHdrs(r.hdrs)
        \o (IF r.term THEN <<CRLF, CRLF>> ELSE <<CRLF>>)

Sources == {<<"192.168.1.10", 50000>>, <<"10.0.0.7", 1900>>}

\* the datagrams that arrive: every request from the first source, and the
\* searches the device answers from the second one as well
Deliveries ==
    {d \in Requests \X Sources :
        \/ d[2][1] = "192.168.1.10"
        \/ (d[1].term /\ d[1].line = MSearch /\ Len(d[1].hdrs) = 1)}

\* the handler's result for each datagram and source
Handled ==
    [r \in Requests, src \in Sources |-> datagramReceived(Render(r), src[1], src[2])]

(***************************************************************************)
(* State                                                                   *)
(***************************************************************************)
VARIABLES
    gpio_pin,           \* --gpiopin: negative selects simulation mode
    last_state,         \* garage_door_status['last_state']
    countdown,          \* GarageMonitor.countdown (simulation only)
    subscription_list,  \* callback url -> [expiration]
    now,                \* what time() returns; a handler runs at one instant
    written,            \* port.write calls of the latest datagramReceived
    raised,             \* the exception the latest handler ended with
    posts,              \* bag of the agent.request calls of the latest tick
    body,               \* what the latest HTTP handler returned
    event,              \* the latest handler run and its input
    nreads,             \* number of simulated reads so far
    subscribed_at,      \* callback address -> time of its latest SUBSCRIBE
    sim_reads,          \* the latest simulated reads, at most SimWindow of them
    elapsed,            \* number of clock advances so far
    pending,            \* number of check_garage_state calls the reactor has scheduled
    inflight,           \* bag of the urls of the requests whose Deferred has not fired
    rounds              \* the cmd of the latest notify_hubs calls, at most RoundWindow

vars == <<gpio_pin, last_state, countdown, subscription_list, now, written, raised,
          posts, body, event, nreads, subscribed_at, sim_reads, elapsed,
          pending, inflight, rounds>>

\* bounds of the exploration
MaxReads == 9
MaxElapse == 2

\* at most this many requests are followed while they wait for their outcome
MaxInflight == 2

\* how many simulated reads are remembered: one period of the simulation
SimWindow == 3

\* how many notification rounds are remembered
RoundWindow == 2

\* the last n elements of s
LastOf(s, n) == IF Len(s) <= n THEN s ELSE SubSeq(s, Len(s) - n + 1, Len(s))

\* 24 * 3600, line 138
TTL == 24 * 3600

\* what one clock advance adds: one second, or one second short of the TTL
Steps == {1, TTL - 1}

\* --gpiopin values: the default (simulation) and a board pin
Pins == {-1, 7}

\* the callback addresses the hubs subscribe with
Callbacks == {<<"http://192.168.1.10:39500/notify">>, <<"http://10.0.0.7:39500/notify">>}

\* request.getAllHeaders() of a SUBSCRIBE: with the Callback header or without
HttpHeaders(cb) ==
    IF cb = <<>> THEN [host |-> <<"garage">>]
    ELSE [host |-> <<"garage">>, callback |-> <<"<">> \o cb \o <<">">>]

Paths == {"/status", "/"}

(***************************************************************************)
(* StatusServer                                                            *)
(***************************************************************************)
\* variant: the state is compared with 'open'
Cmd_open_test(state) == IF state = "open" THEN "status-open" ELSE "status-closed"

\* lines 140-143, 150-153 and 224-227
Cmd(state) == IF state = "closed" THEN "status-closed" ELSE "status-open"

\* '<msg><cmd>%s</cmd><usn>uuid:%s::%s</usn></msg>' % (cmd, UUID, device_target)
Msg(cmd) ==
    <<"<msg><cmd>", cmd, "</cmd><usn>uuid:", UUID, "::">> \o device_target
        \o <<"</usn></msg>">>

\* time() + 24 * 3600
Expiration(t) == t + TTL

\* variant: the expiration is set only when the entry is created
Subscribed_insert_only(subs, headers, t) ==
    IF "callback" \in DOMAIN headers
    THEN LET cb_url == Slice1m1(headers.callback)
         IN  [u \in (DOMAIN subs) \cup {cb_url} |->
                 IF u \in DOMAIN subs THEN subs[u] ELSE [expiration |-> Expiration(t)]]
    ELSE subs

\* variant: a SUBSCRIBE without Callback registers the empty address
Subscribed_anonymous(subs, headers, t) ==
    LET cb_url == IF "callback" \in DOMAIN headers THEN Slice1m1(headers.callback)
                                                   ELSE <<>>
    IN  [u \in (DOMAIN subs) \cup {cb_url} |->
            IF u = cb_url THEN [expiration |-> Expiration(t)] ELSE subs[u]]

\* variant: a SUBSCRIBE drops the entries that have expired
Subscribed_evicting(subs, headers, t) ==
    IF "callback" \in DOMAIN headers
    THEN LET cb_url == Slice1m1(headers.callback)
             kept   == {u \in DOMAIN subs : subs[u].expiration > t}
         IN  [u \in kept \cup {cb_url} |->
                 IF u = cb_url THEN [expiration |-> Expiration(t)] ELSE subs[u]]
    ELSE subs

\* lines 130-138: the registry after a SUBSCRIBE with these headers at time t
Subscribed(subs, headers, t) ==
    IF "callback" \in DOMAIN headers
    THEN LET cb_url == Slice1m1(headers.callback)
         IN  [u \in (DOMAIN subs) \cup {cb_url} |->
                 IF u = cb_url THEN [expiration |-> Expiration(t)] ELSE subs[u]]
    ELSE subs

\* lines 133-137: what the SUBSCRIBE logs
SubscribeLog(subs, headers) ==
    IF "callback" \notin DOMAIN headers THEN "none"
    ELSE IF Slice1m1(headers.callback) \notin DOMAIN subs THEN "Added subscription"
    ELSE "Refreshed subscription"

\* variant: the SUBSCRIBE reply tests for 'open'
render_SUBSCRIBE_body_open_test(state) ==
    Msg(IF state = "open" THEN "status-open" ELSE "status-closed")

\* lines 140-145: what a SUBSCRIBE returns
render_SUBSCRIBE_body(state) == Msg(Cmd(state))

render_GET_body(path, state) == IF path = "/status" THEN Msg(Cmd(state)) ELSE <<>>

(***************************************************************************)
(* GarageMonitor                                                           *)
(***************************************************************************)
\* variant: the simulation returns the initial state between two flips
get_current_state_initial(pin, state, cd, level) ==
    IF pin < 0
    THEN IF cd - 1 <= 0
         THEN [reading |-> IF state = "closed" THEN "open" ELSE "closed", countdown |-> 3]
         ELSE [reading |-> "unknown", countdown |-> cd - 1]
    ELSE [reading |-> IF level THEN "open" ELSE "closed", countdown |-> cd]

\* variant: the countdown is compared with < 0
get_current_state_late(pin, state, cd, level) ==
    IF pin < 0
    THEN IF cd - 1 < 0
         THEN [reading |-> IF state = "closed" THEN "open" ELSE "closed", countdown |-> 3]
         ELSE [reading |-> state, countdown |-> cd - 1]
    ELSE [reading |-> IF level THEN "open" ELSE "closed", countdown |-> cd]

\* get_current_state: the reading and the countdown it leaves; level is what
\* GPIO.input returns
get_current_state(pin, state, cd, level) ==
    IF pin < 0
    THEN IF cd - 1 <= 0
         THEN [reading |-> IF state = "closed" THEN "open" ELSE "closed", countdown |-> 3]
         ELSE [reading |-> state, countdown |-> cd - 1]
    ELSE [reading |-> IF level THEN "open" ELSE "closed", countdown |-> cd]

\* variant: the expiration is compared with >=
IsActive_inclusive(subscription, t) == subscription.expiration >= t

\* line 229
IsActive(subscription, t) == subscription.expiration > t

Post(uri, msg) == [method |-> "POST", uri |-> uri, body |-> msg]

\* variant: the loop ends after the first request
notify_loop_first_only(keys, subs, t, msg) ==
    LET active == {k \in keys : subs[k].expiration > t}
    IN  IF active = {} THEN EmptyBag
        ELSE SetToBag({Post(CHOOSE k \in active : TRUE, msg)})

\* the urls of a bag of requests
RECURSIVE Uris(_)
Uris(B) ==
    IF B = EmptyBag THEN EmptyBag
    ELSE LET p == CHOOSE x \in BagToSet(B) : TRUE
         IN  SetToBag({p.uri}) (+) Uris(B (-) SetToBag({p}))

\* notify_hubs: one agent.request per iteration that passes the test
RECURSIVE notify_loop(_, _, _, _)
notify_loop(keys, subs, t, msg) ==
    IF keys = {} THEN EmptyBag
    ELSE LET s == CHOOSE k \in keys : TRUE
         IN  (IF IsActive(subs[s], t) THEN SetToBag({Post(s, msg)}) ELSE EmptyBag)
                 (+) notify_loop(keys \ {s}, subs, t, msg)

notify_hubs(state, subs, t) == notify_loop(DOMAIN subs, subs, t, Msg(Cmd(state)))

\* variant: the hubs are notified before the state is stored
check_garage_state_notify_first(state, current_state, subs, t) ==
    IF current_state # state
    THEN [last_state |-> current_state, notified |-> TRUE, cmd |-> Cmd(state),
          posts |-> notify_hubs(state, subs, t)]
    ELSE [last_state |-> state, notified |-> FALSE, cmd |-> "none", posts |-> EmptyBag]

\* variant: the hubs are notified on every tick
check_garage_state_always_notify(state, current_state, subs, t) ==
    [last_state |-> current_state, notified |-> TRUE, cmd |-> Cmd(current_state),
     posts |-> notify_hubs(current_state, subs, t)]

\* lines 213-216: the state a tick stores and the requests it issues;
\* notify_hubs reads the state that was just stored
check_garage_state(state, current_state, subs, t) ==
    IF current_state # state
    THEN [last_state |-> current_state, notified |-> TRUE, cmd |-> Cmd(current_state),
          posts |-> notify_hubs(current_state, subs, t)]
    ELSE [last_state |-> state, notified |-> FALSE, cmd |-> "none", posts |-> EmptyBag]

\* how a request can end: the hub closes the connection without a response
\* (ResponseFailed), another failure, or a response with a status code
Outcomes == {"ResponseFailed", "failure", "response"}

\* variant: a request that failed otherwise than by ResponseFailed is issued again
AfterOutcome_retry(requests, uri, outcome) ==
    IF outcome = "failure" THEN requests ELSE requests (-) SetToBag({uri})

\* handle_response and handle_error return after logging: the request is over
AfterOutcome(requests, uri, outcome) == requests (-) SetToBag({uri})

\* handle_response and handle_error: the level they log at
OutcomeLog(outcome) ==
    IF outcome = "response" THEN "error"
    ELSE IF outcome = "ResponseFailed" THEN "debug"
    ELSE "error"

(***************************************************************************)
(* Actions: one per handler the reactor runs, and the clock                *)
(***************************************************************************)
Init ==
    /\ gpio_pin \in Pins
    /\ last_state = "unknown"
    /\ countdown = 3
    /\ subscription_list = <<>>
    /\ now = 0
    /\ written = <<>>
    /\ raised = "none"
    /\ posts = EmptyBag
    /\ body = <<>>
    /\ event = [op |-> "main"]
    /\ nreads = 0
    /\ subscribed_at = <<>>
    /\ sim_reads = <<>>
    /\ elapsed = 0
    /\ pending = 1
    /\ inflight = EmptyBag
    /\ rounds = <<>>

\* SSDPServer.datagramReceived
DatagramReceived ==
    \E d \in Deliveries :
        LET r   == d[1]
            src == d[2]
            res == Handled[r, src]
        IN  /\ written' = res.written
            /\ raised' = res.raised
            /\ event' = [op |-> "datagramReceived", request |-> r, from |-> src]
            /\ posts' = EmptyBag
            /\ body' = <<>>
            /\ UNCHANGED <<gpio_pin, last_state, countdown, subscription_list, now,
                           nreads, subscribed_at, sim_reads, elapsed, pending,
                           inflight, rounds>>

\* StatusServer.render_SUBSCRIBE
RenderSubscribe ==
    \E cb \in Callbacks \cup {<<>>} :
        /\ subscription_list' = Subscribed(subscription_list, HttpHeaders(cb), now)
        /\ subscribed_at' =
               IF cb = <<>> THEN subscribed_at
               ELSE [a \in (DOMAIN subscribed_at) \cup {cb} |->
                        IF a = cb THEN now ELSE subscribed_at[a]]
        /\ body' = render_SUBSCRIBE_body(last_state)
        /\ event' = [op |-> "render_SUBSCRIBE", callback |-> cb,
                     log |-> SubscribeLog(subscription_list, HttpHeaders(cb))]
        /\ written' = <<>>
        /\ raised' = "none"
        /\ posts' = EmptyBag
        /\ UNCHANGED <<gpio_pin, last_state, countdown, now, nreads, sim_reads, elapsed,
                       pending, inflight, rounds>>

\* StatusServer.render_GET
RenderGet ==
    \E path \in Paths :
        /\ body' = render_GET_body(path, last_state)
        /\ event' = [op |-> "render_GET", path |-> path]
        /\ written' = <<>>
        /\ raised' = "none"
        /\ posts' = EmptyBag
        /\ UNCHANGED <<gpio_pin, last_state, countdown, subscription_list, now,
                       nreads, subscribed_at, sim_reads, elapsed, pending, inflight,
                       rounds>>

\* GarageMonitor.check_garage_state, with notify_hubs; the reactor takes the
\* call off its schedule, and line 219 schedules the next one
CheckGarageState ==
    /\ pending > 0
    /\ nreads < MaxReads
    /\ \E level \in BOOLEAN :
        LET got == get_current_state(gpio_pin, last_state, countdown, level)
            current_state == got.reading
            res == check_garage_state(last_state, current_state, subscription_list, now)
        IN  /\ BagCardinality(inflight) + BagCardinality(res.posts) <= MaxInflight
            /\ countdown' = got.countdown
            /\ last_state' = res.last_state
            /\ posts' = res.posts
            /\ inflight' = inflight (+) Uris(res.posts)
            /\ rounds' = IF res.notified
                         THEN LastOf(rounds \o <<res.cmd>>, RoundWindow)
                         ELSE rounds
            /\ event' = [op |-> "check_garage_state", before |-> last_state,
                         reading |-> current_state, notified |-> res.notified]
            /\ sim_reads' =
                   IF gpio_pin < 0
                   THEN LastOf(sim_reads \o <<[countdown |-> countdown,
                                               before |-> last_state,
                                               reading |-> current_state]>>, SimWindow)
                   ELSE sim_reads
    /\ pending' = (pending - 1) + 1
    /\ nreads' = IF gpio_pin < 0 THEN nreads + 1 ELSE nreads
    /\ written' = <<>>
    /\ raised' = "none"
    /\ body' = <<>>
    /\ UNCHANGED <<gpio_pin, subscription_list, now, subscribed_at, elapsed>>

\* GarageMonitor.check_garage_state when GPIO.input raises: the exception
\* leaves get_current_state and check_garage_state, the reactor logs it and
\* goes on; line 219 is not reached
CheckGarageStateRaises ==
    /\ pending > 0
    /\ gpio_pin >= 0
    /\ pending' = pending - 1
    /\ raised' = "RuntimeError"
    /\ event' = [op |-> "check_garage_state raised", before |-> last_state]
    /\ written' = <<>>
    /\ posts' = EmptyBag
    /\ body' = <<>>
    /\ UNCHANGED <<gpio_pin, last_state, countdown, subscription_list, now, nreads,
                   subscribed_at, sim_reads, elapsed, inflight, rounds>>

\* the Deferred of one request fires: handle_response or handle_error
NotificationDone ==
    \E uri \in BagToSet(inflight), outcome \in Outcomes :
        /\ inflight' = AfterOutcome(inflight, uri, outcome)
        /\ event' = [op |-> IF outcome = "response" THEN "handle_response"
                                                    ELSE "handle_error",
                     outcome |-> outcome, log |-> OutcomeLog(outcome)]
        /\ written' = <<>>
        /\ raised' = "none"
        /\ posts' = EmptyBag
        /\ body' = <<>>
        /\ UNCHANGED <<gpio_pin, last_state, countdown, subscription_list, now,
                       nreads, subscribed_at, sim_reads, elapsed, pending, rounds>>

\* time passes between two handlers
Elapse ==
    /\ elapsed < MaxElapse
    /\ \E d \in Steps : now' = now + d
    /\ elapsed' = elapsed + 1
    /\ event' = [op |-> "elapse"]
    /\ written' = <<>>
    /\ raised' = "none"
    /\ posts' = EmptyBag
    /\ body' = <<>>
    /\ UNCHANGED <<gpio_pin, last_state, countdown, subscription_list, nreads,
                   subscribed_at, sim_reads, pending, inflight, rounds>>

Next ==
    \/ DatagramReceived
    \/ RenderSubscribe
    \/ RenderGet
    \/ CheckGarageState
    \/ CheckGarageStateRaises
    \/ NotificationDone
    \/ Elapse

Spec == Init /\ [][Next]_vars

(***************************************************************************)
(* Vocabulary of the properties                                            *)
(***************************************************************************)
TypeOK ==
    /\ gpio_pin \in Pins
    /\ last_state \in {"unknown", "open", "closed"}
    /\ countdown \in 1..3
    /\ now \in Nat
    /\ nreads \in 0..MaxReads
    /\ elapsed \in 0..MaxElapse
    /\ raised \in {"none", "IndexError", "RuntimeError"}
    /\ pending \in 0..1
    /\ BagCardinality(inflight) <= MaxInflight
    /\ Len(rounds) <= RoundWindow
    /\ Len(written) <= 1
    /\ Len(sim_reads) <= SimWindow

\* the latest handler was a tick, and its reading differed from the stored state
Ticked == event.op = "check_garage_state"
Changed == Ticked /\ event.reading # event.before

\* number of POSTs of the latest tick that went to uri
RECURSIVE SumCopies(_, _)
SumCopies(ps, B) ==
    IF ps = {} THEN 0
    ELSE LET p == CHOOSE x \in ps : TRUE
         IN  CopiesIn(p, B) + SumCopies(ps \ {p}, B)

Attempts(uri) == SumCopies({p \in BagToSet(posts) : p.uri = uri}, posts)

\* 24 hours, in seconds
Hours24 == 24 * 60 * 60

\* the request of the latest datagram, as it was sent
Discovery == event.op = "datagramReceived"
Method(r) == IF Len(r.line) >= 1 THEN r.line[1] ELSE ""
Target(r) == IF Len(r.line) >= 2 THEN r.line[2] ELSE ""
StHeaders(r) == {i \in 1..Len(r.hdrs) : r.hdrs[i].sep # NoSep /\ LowerAtom(r.hdrs[i].name) = "st"}
HasST(r) == StHeaders(r) # {}
STValue(r) == r.hdrs[CHOOSE i \in StHeaders(r) : TRUE].value
STOrEmpty(r) == IF HasST(r) THEN STValue(r) ELSE <<>>

\* a request with a request line of a method and a target, headers with a
\* colon each, and the blank line
WellFormed(r) ==
    /\ r.term
    /\ Len(r.line) >= 2
    /\ \A i \in 1..Len(r.hdrs) : r.hdrs[i].sep # NoSep

\* a well-formed search that the device answers: M-SEARCH * whose search target,
\* empty when there is none, occurs in the device target
Matching(r) ==
    /\ WellFormed(r)
    /\ Method(r) = "M-SEARCH"
    /\ Target(r) = "*"
    /\ Contains(STOrEmpty(r), device_target)

\* a client's reading of a response: the value of the header line called name
FieldLines(resp, name) ==
    LET lines == split(resp, <<CRLF>>)
    IN  {i \in 2..Len(lines) : StartsWith(lines[i], <<name, ":">>)}

Field(resp, name) ==
    LET lines == split(resp, <<CRLF>>)
    IN  From(lines[CHOOSE i \in FieldLines(resp, name) : TRUE], 2)

LocalIps == {"192.168.1.2", "10.0.0.2"}

(***************************************************************************)
(* Properties                                                              *)
(***************************************************************************)

\* C1: after a tick whose reading differs from the stored state, every
\* registered callback whose expiration is later than the time of the tick has
\* exactly one POST, every other one has none, no POST goes to an address that
\* is not registered, and GET /status returns the message of the new state.
C1_OneAttemptPerActive ==
    Changed =>
        /\ \A u \in DOMAIN subscription_list :
               Attempts(u) = IF subscription_list[u].expiration > now THEN 1 ELSE 0
        /\ \A p \in BagToSet(posts) : p.uri \in DOMAIN subscription_list
        /\ render_GET_body("/status", last_state) = Msg(Cmd(event.reading))

\* a changing tick with one active and one expired subscriber
C1_Witness ==
    /\ Changed
    /\ \E u, v \in DOMAIN subscription_list :
           /\ subscription_list[u].expiration > now
           /\ subscription_list[v].expiration <= now
           /\ Attempts(u) = 1
           /\ Attempts(v) = 0

\* C2: a callback last subscribed at time t is notified of a state change at
\* time now exactly when now < t + 24h; at now = t + 24h and later it is not.
C2_ActiveUntilTTL ==
    Changed =>
        \A a \in DOMAIN subscribed_at :
            (Attempts(a) >= 1) <=> (now < subscribed_at[a] + Hours24)

\* a changing tick exactly 24h after one subscription and less than 24h after
\* another
C2_Witness ==
    /\ Changed
    /\ \E a, b \in DOMAIN subscribed_at :
           /\ now = subscribed_at[a] + Hours24
           /\ now < subscribed_at[b] + Hours24
           /\ Attempts(a) = 0
           /\ Attempts(b) = 1

\* C3: at all times the registry holds exactly the addresses that were
\* subscribed, one entry each, and the entry of an address expires 24h after
\* the latest SUBSCRIBE that named that address, whatever happened since.
C3_OneEntryLatestExpiration ==
    /\ DOMAIN subscription_list = DOMAIN subscribed_at
    /\ \A a \in DOMAIN subscribed_at :
           subscription_list[a] = [expiration |-> subscribed_at[a] + Hours24]

\* a SUBSCRIBE that refreshed an address, next to an older entry of another
C3_Witness ==
    /\ event.op = "render_SUBSCRIBE"
    /\ event.log = "Refreshed subscription"
    /\ \E b \in DOMAIN subscribed_at :
           /\ b # event.callback
           /\ subscribed_at[b] < subscribed_at[event.callback]
           /\ subscribed_at[event.callback] = now

\* C4: a request whose method is not M-SEARCH, or whose target is not *, or
\* whose ST header value does not occur in the device target, gets no response.
C4_OthersDropped ==
    (Discovery /\ (\/ Method(event.request) # "M-SEARCH"
                   \/ Target(event.request) # "*"
                   \/ (HasST(event.request)
                        /\ ~Contains(STValue(event.request), device_target))))
        => written = <<>>

\* an M-SEARCH * for another device, dropped
C4_Witness ==
    /\ Discovery
    /\ WellFormed(event.request)
    /\ Method(event.request) = "M-SEARCH"
    /\ Target(event.request) = "*"
    /\ HasST(event.request)
    /\ ~Contains(STValue(event.request), device_target)
    /\ written = <<>>
    /\ raised = "none"

\* C5: a response is written only for a request that has an ST header whose
\* value equals the device target.
C5_OnlyExactTarget ==
    (Discovery /\ written # <<>>)
        => (HasST(event.request) /\ STValue(event.request) = device_target)

\* C6: a matching request gets exactly one response, sent to the address the
\* request came from; a client reads from it the ST of the request, the USN
\* uuid:<UUID>::<device target> and the LOCATION http://<local ip>:<port>/status.
C6_ResponseFields ==
    (Discovery /\ Matching(event.request)) =>
        /\ Len(written) = 1
        /\ written[1].to = event.from
        /\ Cardinality(FieldLines(written[1].data, "ST")) = 1
        /\ Field(written[1].data, "ST") = STOrEmpty(event.request)
        /\ Field(written[1].data, "USN")
               = <<"uuid", ":", UUID, ":", ":">> \o device_target
        /\ \E ip \in LocalIps :
               Field(written[1].data, "LOCATION")
                   = <<"http", ":", "//", ip, ":">> \o Digits(http_port) \o <<"/status">>

\* a search for a part of the device target, answered
C6_Witness ==
    /\ Discovery
    /\ Matching(event.request)
    /\ HasST(event.request)
    /\ STValue(event.request) # device_target
    /\ Len(written) = 1

\* C7: once a tick has completed the stored state is open or closed, and a
\* read returns nothing but open or closed.
C7_FirstReadLeavesUnknown ==
    /\ Ticked => last_state \in {"open", "closed"}
    /\ Ticked => event.reading \in {"open", "closed"}

\* C8: a stored state of open or closed is never followed by unknown, and
\* every change of it is open to closed or closed to open.
C8_NeverBackToUnknown ==
    [][ (last_state # "unknown") =>
            /\ last_state' \in {"open", "closed"}
            /\ (last_state' # last_state =>
                   {last_state, last_state'} = {"open", "closed"}) ]_vars

\* the door was open and a tick has found it closed
C8_Witness ==
    /\ Ticked
    /\ event.before = "open"
    /\ event.reading = "closed"
    /\ last_state = "closed"

\* C9: in simulation mode the reading differs from the stored state on reads
\* 3, 6, 9, ... and on no other, the countdown is back at 3 after each of
\* those and counts the reads left until the next, and three consecutive reads
\* that start with countdown 3 and stored state closed return closed, closed,
\* open.
C9_FlipEveryThirdRead ==
    gpio_pin < 0 =>
        /\ countdown = 3 - (nreads % 3)
        /\ nreads >= 1 =>
               LET r == sim_reads[Len(sim_reads)]
               IN  (r.reading # r.before) <=> (nreads % 3 = 0)
        /\ \A i \in 1..(Len(sim_reads) - 2) :
               (sim_reads[i].countdown = 3 /\ sim_reads[i].before = "closed") =>
                   /\ sim_reads[i].reading = "closed"
                   /\ sim_reads[i + 1].reading = "closed"
                   /\ sim_reads[i + 2].reading = "open"

\* the sixth simulated read: the third of three that started at countdown 3, closed
C9_Witness ==
    /\ gpio_pin < 0
    /\ nreads = 6
    /\ Len(sim_reads) >= 3
    /\ sim_reads[Len(sim_reads) - 2].countdown = 3
    /\ sim_reads[Len(sim_reads) - 2].before = "closed"
    /\ sim_reads[Len(sim_reads)].reading = "open"

\* C10: a malformed datagram (no blank line, a request line of one token, a
\* header line without a colon) gets no response and raises nothing.
C10_MalformedDiscarded ==
    (Discovery /\ ~WellFormed(event.request))
        => (written = <<>> /\ raised = "none")

\* the latest handler was a tick that called notify_hubs
Notified == Ticked /\ event.notified

\* the cmd of a status message
CmdOf(msg) == msg[2]

\* the latest handler returned a status message: GET /status or SUBSCRIBE
Replied ==
    \/ (event.op = "render_GET" /\ event.path = "/status")
    \/ event.op = "render_SUBSCRIBE"

\* C11: once a hardware read has failed, so that no tick is scheduled any
\* more, the process has stopped: no handler runs.
C11_ReadFailureIsFatal ==
    pending = 0 =>
        event.op \notin {"render_GET", "render_SUBSCRIBE", "datagramReceived",
                         "handle_response", "handle_error"}

\* C12: GET /status and SUBSCRIBE return the same message at every moment, the
\* message a handler returned is that one, and after a notification round its
\* cmd is the cmd of the latest round.
C12_OneCurrentState ==
    /\ render_GET_body("/status", last_state) = render_SUBSCRIBE_body(last_state)
    /\ Replied => body = render_GET_body("/status", last_state)
    /\ rounds # <<>> =>
           CmdOf(render_SUBSCRIBE_body(last_state)) = rounds[Len(rounds)]

\* a SUBSCRIBE without Callback answered after a round that announced closed
C12_Witness ==
    /\ event.op = "render_SUBSCRIBE"
    /\ event.callback = <<>>
    /\ rounds # <<>>
    /\ CmdOf(body) = "status-closed"
    /\ rounds[Len(rounds)] = "status-closed"

\* C13: at every moment exactly one tick is scheduled: every tick, whatever
\* its outcome, has scheduled the next one.
C13_OneTickPending == pending = 1

\* C14: the requests a tick issues carry the state the tick has just stored
\* (status-closed for closed, status-open for open), not the state before it.
C14_NotifyAfterUpdate ==
    Notified =>
        /\ last_state = event.reading
        /\ \A p \in BagToSet(posts) :
               /\ CmdOf(p.body) = IF event.reading = "closed" THEN "status-closed"
                                                             ELSE "status-open"
               /\ event.before \in {"open", "closed"} =>
                      CmdOf(p.body) # IF event.before = "closed" THEN "status-closed"
                                                               ELSE "status-open"

\* the door went from open to closed and two hubs were told
C14_Witness ==
    /\ Notified
    /\ event.before = "open"
    /\ event.reading = "closed"
    /\ BagCardinality(posts) = 2

\* C15: when a request ends, whatever its outcome, exactly that request leaves
\* the requests in flight (the others stay, none is issued again or anew), the
\* next tick stays scheduled, and the stored state and the registry are as
\* before.
C15_OutcomesAreLocal ==
    [][ event'.op \in {"handle_response", "handle_error"} =>
            /\ BagCardinality(inflight') = BagCardinality(inflight) - 1
            /\ \A u \in BagToSet(inflight) :
                   CopiesIn(u, inflight') >= CopiesIn(u, inflight) - 1
            /\ posts' = EmptyBag
            /\ pending' = pending
            /\ last_state' = last_state
            /\ subscription_list' = subscription_list ]_vars

\* a request failed otherwise than by ResponseFailed while another is in flight
\* and the next tick is scheduled
C15_Witness ==
    /\ event.op = "handle_error"
    /\ event.outcome = "failure"
    /\ event.log = "error"
    /\ inflight # EmptyBag
    /\ pending = 1

\* C16: the stored state changes only in a tick, and the registry changes only
\* in a SUBSCRIBE that has a Callback header.
C16_TwoWriters ==
    [][ /\ last_state' # last_state => event'.op = "check_garage_state"
        /\ subscription_list' # subscription_list =>
               (event'.op = "render_SUBSCRIBE" /\ event'.callback # <<>>) ]_vars

\* a SUBSCRIBE without Callback, handled while the registry holds an entry and
\* the door is known to be closed
C16_Witness ==
    /\ event.op = "render_SUBSCRIBE"
    /\ event.callback = <<>>
    /\ subscription_list # <<>>
    /\ last_state = "closed"

\* C17: an address in the registry stays in it; its entry changes only in a
\* SUBSCRIBE for that address; an entry that has expired is active again only
\* after a SUBSCRIBE for that address.
C17_NoEntryLost ==
    [][ \A a \in DOMAIN subscription_list :
            /\ a \in DOMAIN subscription_list'
            /\ subscription_list'[a] # subscription_list[a] =>
                   (event'.op = "render_SUBSCRIBE" /\ event'.callback = a)
            /\ (subscription_list[a].expiration <= now
                    /\ subscription_list'[a].expiration > now') =>
                   (event'.op = "render_SUBSCRIBE" /\ event'.callback = a) ]_vars

\* a SUBSCRIBE for one address while the entry of another has expired
C17_Witness ==
    /\ event.op = "render_SUBSCRIBE"
    /\ event.callback # <<>>
    /\ \E a \in DOMAIN subscription_list :
           /\ a # event.callback
           /\ subscription_list[a].expiration <= now

\* C18: every status message (GET /status, SUBSCRIBE, notification) has cmd
\* status-closed when the stored state is closed and status-open otherwise,
\* unknown included.
C18_CmdFollowsState ==
    LET expected == IF last_state = "closed" THEN "status-closed" ELSE "status-open"
    IN  /\ Replied => CmdOf(body) = expected
        /\ Notified => \A p \in BagToSet(posts) : CmdOf(p.body) = expected
        /\ (Replied /\ CmdOf(body) = "status-closed") => last_state = "closed"

\* a poll answered status-open while the state is unknown
C18_Witness ==
    /\ event.op = "render_GET"
    /\ event.path = "/status"
    /\ last_state = "unknown"
    /\ CmdOf(body) = "status-open"

\* C19: a notification round happens only in a tick whose reading differs from
\* the stored state, and two consecutive rounds never announce the same cmd.
C19_RoundsAlternate ==
    /\ [](\A i \in 1..(Len(rounds) - 1) : rounds[i] # rounds[i + 1])
    /\ [][ rounds' # rounds =>
               (event'.op = "check_garage_state" /\ event'.reading # event'.before) ]_vars

\* a second round has happened
C19_Witness ==
    /\ Notified
    /\ Len(rounds) >= 2
    /\ rounds[Len(rounds)] = "status-open"

\* C20, as claimed: the cmd of every round differs from the cmd GET /status
\* returned before the tick.
C20_RoundChangesStatus ==
    Notified =>
        rounds[Len(rounds)] # CmdOf(render_GET_body("/status", event.before))

\* C20, amended: the cmd of a round differs from the cmd GET /status returned
\* before the tick when the state before the tick was open or closed; in the
\* first round after startup (from unknown, polled as status-open) it differs
\* exactly when the reading is closed.
C20_RoundChangesKnownStatus ==
    Notified =>
        LET polled == CmdOf(render_GET_body("/status", event.before))
        IN  /\ event.before # "unknown" => rounds[Len(rounds)] # polled
            /\ event.before = "unknown" =>
                   ((rounds[Len(rounds)] # polled) <=> (event.reading = "closed"))

\* the first round announces status-open, which the polls already returned
C20_Witness ==
    /\ Notified
    /\ event.before = "unknown"
    /\ event.reading = "open"
    /\ rounds = <<"status-open">>

====
